---- MODULE Spec2Model ----
(***************************************************************************)
(* Model of the ttyf command-line tool (lens-finance/cli):                 *)
(*   - TTYFCommandHandler (src/ttyf_cli/ttyf.py): add / remove / user      *)
(*     commands, one step of the model per statement group of the code;    *)
(*   - PlaidCallbackServer (src/ttyf_cli/auth/plaid/callback_server.py):   *)
(*     the local listener, its latch and the polling wait;                 *)
(*   - the collaborators the handler calls: the keyring (AuthHandler), the *)
(*     connections file, the credentials file, the Plaid client.           *)
(* Time is counted in ticks of a quarter of a second.  Whole ticks pass    *)
(* inside time.sleep(); the time the other statements take is less than a  *)
(* tick and shows only where the clock is compared with the timeout.  The  *)
(* date_added field of a connection record is left out: no step of the     *)
(* code reads it.                                                          *)
(***************************************************************************)
EXTENDS Integers, Sequences, FiniteSets, TLC

(***************************************************************************)
(* Bounds of the model.                                                    *)
(***************************************************************************)
\* timeout_seconds of wait_for_callback, in ticks (300 s in the code, scaled)
TimeoutTicks == 4
\* number of HTTP requests the listener answers between its start and its
\* stop
MaxRequests == 2
\* the same in the commands over several connection names
RequestsPerAttempt == 1

(***************************************************************************)
(* Program constants.                                                      *)
(***************************************************************************)
\* time.sleep(0.5) of the polling loop, in ticks
PollTicks == 2
\* time.sleep(1) of the test-mode path, in ticks
TestSleepTicks == 4

Names == {"a", "b"}
ItemIds == {"i1", "i2"}
\* the name and the item id of the commands over a single connection
OneName == {"a"}
OneItemId == {"i1"}
AccessTokens == {"tok"}
LinkTokenValues == {"lt"}
PublicTokens == {"pt"}
MockAccessToken == "mock-access-token-12345"
\* the credentials file after construction: json.dump({}, f)
NoProfile == {}
None == "none"
NoTime == 0 - 1
\* no request has been read by the handler
NoRequest == <<>>

(***************************************************************************)
(* Text the user types, as sequences of characters.                        *)
(***************************************************************************)
Answers == { <<"y">>, <<" ", "Y">>, <<"y", "e", "s">>, <<"n">>, <<>> }
EmailInputs == { <<" ", "a", "@", "b", ".", "c">>,
                 <<"a", "b", ".", "c">>,
                 <<"a", "@", ".", "c">> }
\* typed emails that are not addresses and that the pattern lets through
LooseEmailInputs == { <<"a", "@", "b", ".", "c", "@">> }
PhoneInputs == { <<"4", "1", "6", "5", "5", "5", "0", "1", "0", "0">>,
                 <<"6", "4", "7", "5", "5", "5", "0", "1", "0", "1", " ">>,
                 <<"4", "1", "6", "5", "5", "5", "0", "1", "0">>,
                 <<"4", "1", "6", "5", "5", "5", "0", "1", "0", "x">> }
Digits == {"0", "1", "2", "3", "4", "5", "6", "7", "8", "9"}

\* Request targets (the path line of a GET), "cb" standing for the text
\* oauth-callback
Targets == { <<"/", "cb">>,
             <<"/", "cb", "?", "x">>,
             <<"/", "cb", ";", "x">>,
             <<"/", "cb", ";", "x", "/", "x">>,
             <<"/", "x", ";", "x", "/", "cb">>,
             <<"/", "cb", "#", "x">>,
             <<"/", "cb", "/">>,
             <<"/", "/", "cb">>,
             <<"/", "/", "cb", "?", "x">>,
             <<"/", "/", "x", "/", "cb">>,
             <<"/", "x">> }
\* the targets of the requests that reach the listener of an add attempt:
\* the redirect of the browser and some other request
AttemptTargets == { <<"/", "cb", "?", "x">>, <<"/", "x">> }
CallbackPath == <<"/", "cb">>

(***************************************************************************)
(* String helpers.                                                         *)
(***************************************************************************)
RECURSIVE LStrip(_)
LStrip(s) == IF s # <<>> /\ Head(s) = " " THEN LStrip(Tail(s)) ELSE s

RECURSIVE RStrip(_)
RStrip(s) == IF s # <<>> /\ s[Len(s)] = " "
             THEN RStrip(SubSeq(s, 1, Len(s) - 1)) ELSE s

\* str.strip()
Strip(s) == RStrip(LStrip(s))

\* str.lower()
Lower(s) == [i \in 1..Len(s) |->
               IF s[i] = "Y" THEN "y" ELSE IF s[i] = "N" THEN "n" ELSE s[i]]

\* index of the first element of s that lies in set cs, or Len(s)+1
RECURSIVE FirstIn(_, _, _)
FirstIn(s, cs, i) == IF i > Len(s) THEN i
                     ELSE IF s[i] \in cs THEN i ELSE FirstIn(s, cs, i + 1)

\* index of the last element of s, at or before i, that equals c, or 0
RECURSIVE LastIndexOf(_, _, _)
LastIndexOf(s, c, i) == IF i = 0 THEN 0
                        ELSE IF s[i] = c THEN i ELSE LastIndexOf(s, c, i - 1)

\* str.lstrip("/")
RECURSIVE LStripSlash(_)
LStripSlash(s) == IF s # <<>> /\ Head(s) = "/" THEN LStripSlash(Tail(s))
                  ELSE s

\* self.path as BaseHTTPRequestHandler.parse_request leaves it for do_GET
\* (http.server of Python 3.11): a target that begins with // is
\* rewritten to begin with a single /
RequestPath(t) ==
    IF Len(t) >= 2 /\ t[1] = "/" /\ t[2] = "/"
    THEN <<"/">> \o LStripSlash(t) ELSE t

\* urllib.parse._splitparams: the parameters are those of the last
\* segment, the ; being looked for from the last / on
SplitParams(p) ==
    LET slash == LastIndexOf(p, "/", Len(p))
        from == IF slash = 0 THEN 1 ELSE slash
    IN SubSeq(p, 1, FirstIn(p, {";"}, from) - 1)

\* urllib.parse.urlparse(path).path for a text without a scheme: a leading
\* // starts a network location, then the fragment, the query and the
\* parameters of the last segment are split off
UrlPathWhole(t) == t
UrlPath(t) ==
    LET afterNetloc == IF Len(t) >= 2 /\ t[1] = "/" /\ t[2] = "/"
                       THEN LET rest == SubSeq(t, 3, Len(t))
                                e == FirstIn(rest, {"/", "?", "#"}, 1)
                            IN SubSeq(rest, e, Len(rest))
                       ELSE t
        noFrag == SubSeq(afterNetloc, 1, FirstIn(afterNetloc, {"#"}, 1) - 1)
        noQuery == SubSeq(noFrag, 1, FirstIn(noFrag, {"?"}, 1) - 1)
    IN SplitParams(noQuery)

\* re.match(r"[^@]+@[^@]+\.[^@]+", email): a match of a prefix
EmailMatch(s) ==
    \E a \in 1..Len(s) : \E d \in 1..Len(s) :
        /\ \A i \in 1..a : s[i] # "@"
        /\ a + 1 <= Len(s) /\ s[a + 1] = "@"
        /\ d >= a + 3
        /\ \A i \in (a + 2)..(d - 1) : s[i] # "@"
        /\ s[d] = "."
        /\ d + 1 <= Len(s) /\ s[d + 1] # "@"

\* re.match(r"^\d{10}$", phone)
PhoneMatch(s) == Len(s) = 10 /\ \A i \in 1..10 : s[i] \in Digits

\* formatter.confirm(message) with default False
Confirm(ans) ==
    LET response == Lower(Strip(ans))
    IN IF response = <<>> THEN FALSE ELSE response[1] = "y"

\* formatter.prompt("> ").strip().lower() of the duplicate-name question
DupAnswerIsYes(ans) == Lower(Strip(ans)) = <<"y">>

(***************************************************************************)
(* Connection list helpers.                                                *)
(***************************************************************************)
RECURSIVE FindByName(_, _, _)
FindByName(conns, name, i) ==
    IF i > Len(conns) THEN 0
    ELSE IF conns[i].name = name THEN i ELSE FindByName(conns, name, i + 1)

\* _get_plaid_item(name): index of the first record with that name, 0 if none
GetPlaidItem(conns, name) == FindByName(conns, name, 1)

\* list.remove(x): drops the first element equal to x
RECURSIVE FindEqual(_, _, _)
FindEqual(s, x, i) ==
    IF i > Len(s) THEN 0
    ELSE IF s[i] = x THEN i ELSE FindEqual(s, x, i + 1)

ListRemoveLast(s, x) == SubSeq(s, 1, Len(s) - 1)
ListRemove(s, x) ==
    LET k == FindEqual(s, x, 1)
    IN IF k = 0 THEN s
       ELSE SubSeq(s, 1, k - 1) \o SubSeq(s, k + 1, Len(s))

\* The credentials file is a JSON object, modelled as a set of <<key, value>>
\* pairs.  _has_user_credentials(): "email" in creds and "phone" in creds
HasUserCredentials(creds) ==
    /\ \E kv \in creds : kv[1] = "email"
    /\ \E kv \in creds : kv[1] = "phone"

\* creds.get(key)
CredsGet(creds, key) ==
    IF \E kv \in creds : kv[1] = key
    THEN (CHOOSE kv \in creds : kv[1] = key)[2]
    ELSE <<>>

\* the keyring: a function from item ids to access tokens
EmptyKeyring == [k \in {} |-> MockAccessToken]
KeyringPut(kr, key, secret) ==
    [k \in DOMAIN kr \cup {key} |-> IF k = key THEN secret ELSE kr[k]]
KeyringDelete(kr, key) == [k \in DOMAIN kr \ {key} |-> kr[k]]

(***************************************************************************)
(* State.                                                                  *)
(***************************************************************************)
VARIABLES
    connections,     \* the connections file: a sequence of [id, name]
    secrets,         \* the keyring entries for access tokens, by item id
    linkTokens,      \* the keyring entries written by set_link_token: emails
    credentials,     \* the credentials file
    portTaken,       \* localhost:8000 is bound by some other process
    otherLatch,      \* the latch of that process, when it is another add
    timeWait,        \* a connection of a closed listener lingers on the port
    request,         \* the target of the request the handler has read
    pc,              \* position of the running command; "idle" when none
    cmd,             \* the running command: [op, name, setup, testMode]
    local,           \* local variables of the running command
    server,          \* PlaidCallbackServer.server: "none" or "bound"
    thread,          \* the serve_forever thread
    shutdownRequest, \* TCPServer shutdown flag set by shutdown()
    oauthComplete,   \* PlaidCallbackServer._oauth_complete (the latch)
    progress,        \* formatter._active_progress is not None
    now,             \* the clock, in ticks since the command began
    obs              \* what has been observed of the running command

vars == << connections, secrets, linkTokens, credentials, portTaken,
           otherLatch, timeWait, request, pc, cmd, local, server, thread,
           shutdownRequest, oauthComplete, progress, now, obs >>

persistent == << connections, secrets, linkTokens, credentials >>
listener == << server, thread, shutdownRequest, oauthComplete >>
network == << otherLatch, timeWait, request >>

NoCmd == [op |-> None, name |-> None, setup |-> FALSE, testMode |-> FALSE]

NoLocal == [ret |-> None,              \* where _setup_user_credentials returns
            email |-> <<>>,            \* email of the setup / of the request
            conns |-> <<>>,            \* connections read by the callee
            toRemove |-> 0,            \* index of connection_to_remove
            startTime |-> 0,           \* start_time of wait_for_callback
            wakeAt |-> 0,              \* end of the running sleep
            linkToken |-> None,
            publicToken |-> None,
            accessToken |-> None,
            itemId |-> None]

NoObs == [outcome |-> None,            \* how the command ended
          inner |-> None,              \* how the removal inside add ended
          conns0 |-> <<>>,             \* connections when the command began
          secrets0 |-> EmptyKeyring,   \* the keyring when the command began
          creds0 |-> {},               \* credentials when the command began
          listenerStarted |-> FALSE,   \* server.start() bound the socket
          apiCalled |-> FALSE,         \* a Plaid client call was made
          signals |-> 0,               \* latch changes from False to True
          matched |-> 0,               \* handled requests with the path
          handled |-> 0,               \* handled requests
          lastStatus |-> 0,            \* status of the last response
          matchAt |-> NoTime,          \* time of the first matched request
          waitResult |-> None,         \* "true" / "false" of the wait
          waitEnd |-> NoTime,          \* when the wait returned
          secretWritten |-> FALSE,     \* save_access_token was called
          appended |-> FALSE,          \* a record was appended
          successPrinted |-> FALSE,    \* "Successfully added" was printed
          browser |-> None,            \* what webbrowser.open returned
          tokenRequested |-> FALSE,    \* link_token_get was called
          exchange |-> None,           \* item_public_token_exchange: how it ended
          startIgnored |-> FALSE,      \* start() returned at "already running"
          stopIgnored |-> FALSE]       \* stop() returned at "not running"

Init ==
    /\ connections = <<>>
    /\ secrets = EmptyKeyring
    /\ linkTokens = {}
    /\ credentials = NoProfile
    /\ portTaken = FALSE
    /\ otherLatch = FALSE
    /\ timeWait = FALSE
    /\ request = NoRequest
    /\ pc = "idle"
    /\ cmd = NoCmd
    /\ local = NoLocal
    /\ server = "none"
    /\ thread = "none"
    /\ shutdownRequest = FALSE
    /\ oauthComplete = FALSE
    /\ progress = FALSE
    /\ now = 0
    /\ obs = NoObs

\* the observations at the start of a command
StartObs == [NoObs EXCEPT !.conns0 = connections,
                          !.secrets0 = secrets,
                          !.creds0 = credentials]

(***************************************************************************)
(* The environment: another process binds or releases localhost:8000.      *)
(* The port is looked at by StartServer only, so what other processes do   *)
(* once the command has returned is left to the next command.              *)
(***************************************************************************)
OtherProcessBinds ==
    /\ server = "none" /\ ~portTaken
    /\ pc # "done"
    /\ portTaken' = TRUE
    /\ otherLatch' = FALSE
    /\ UNCHANGED << persistent, pc, cmd, local, listener, progress, now, obs,
                    timeWait, request >>

OtherProcessReleases ==
    /\ portTaken
    /\ portTaken' = FALSE
    /\ otherLatch' = FALSE
    /\ UNCHANGED << persistent, pc, cmd, local, listener, progress, now, obs,
                    timeWait, request >>

\* the other process is an add attempt too, and the browser's redirect
\* reaches its listener: its latch is set
OtherProcessSignaled ==
    /\ portTaken /\ ~otherLatch
    /\ pc # "done"
    /\ otherLatch' = TRUE
    /\ UNCHANGED << persistent, portTaken, pc, cmd, local, listener, progress,
                    now, obs, timeWait, request >>

\* The listener answers with HTTP/1.0 and no Content-Length, so it is the
\* one that closes each connection, which then lingers in TIME_WAIT on the
\* port until the system drops it.  Like the port, it is looked at by a bind
\* only.
TimeWaitExpires ==
    /\ timeWait /\ server = "none"
    /\ pc # "done"
    /\ timeWait' = FALSE
    /\ UNCHANGED << persistent, portTaken, otherLatch, request, pc, cmd,
                    local, listener, progress, now, obs >>

(***************************************************************************)
(* Commands (src/ttyf_cli/cli.py).  Each invocation is a new process: the  *)
(* environment variable TTYF_TEST_MODE is read per invocation.             *)
(***************************************************************************)
\* ttyf add NAME [--setup]: TTYFCommandHandler.add, up to the first prompt
\* or the call of _add_plaid_item
Add(name, setup, testMode) ==
    /\ pc = "idle"
    /\ cmd' = [op |-> "add", name |-> name, setup |-> setup,
               testMode |-> testMode]
    /\ obs' = StartObs
    /\ IF setup \/ ~HasUserCredentials(credentials)
       THEN /\ pc' = "setup_email"
            /\ local' = [NoLocal EXCEPT !.ret = "add_check"]
       ELSE /\ pc' = "add_check"
            /\ local' = NoLocal
    /\ UNCHANGED << persistent, portTaken, listener, progress, now >>
    /\ UNCHANGED network

\* add(): the second credentials check, then _add_plaid_item(name)
AddCheck ==
    /\ pc = "add_check"
    /\ IF ~HasUserCredentials(credentials)
       THEN /\ pc' = "done"
            /\ obs' = [obs EXCEPT !.outcome = "no_credentials"]
       ELSE /\ pc' = "dup_check"
            /\ obs' = obs
    /\ UNCHANGED << persistent, portTaken, cmd, local, listener, progress,
                    now >>
    /\ UNCHANGED network

\* ttyf remove NAME: TTYFCommandHandler.delete
Remove(name, testMode) ==
    /\ pc = "idle"
    /\ cmd' = [op |-> "remove", name |-> name, setup |-> FALSE,
               testMode |-> testMode]
    /\ obs' = StartObs
    /\ local' = NoLocal
    /\ pc' = "del_find"
    /\ UNCHANGED << persistent, portTaken, listener, progress, now >>
    /\ UNCHANGED network

\* ttyf user --setup: TTYFCommandHandler.setup_user_credentials
UserSetup(testMode) ==
    /\ pc = "idle"
    /\ cmd' = [op |-> "user", name |-> None, setup |-> TRUE,
               testMode |-> testMode]
    /\ obs' = StartObs
    /\ local' = [NoLocal EXCEPT !.ret = "done"]
    /\ pc' = "setup_email"
    /\ UNCHANGED << persistent, portTaken, listener, progress, now >>
    /\ UNCHANGED network

(***************************************************************************)
(* _setup_user_credentials: two prompt loops, then the file is written.    *)
(***************************************************************************)
PromptEmail(input) ==
    /\ pc = "setup_email"
    /\ LET email == Strip(input)
       IN IF EmailMatch(email)
          THEN /\ local' = [local EXCEPT !.email = email]
               /\ pc' = "setup_phone"
          ELSE /\ local' = local
               /\ pc' = "setup_email"
    /\ UNCHANGED << persistent, portTaken, cmd, listener, progress, now, obs >>
    /\ UNCHANGED network

PromptPhone(input) ==
    /\ pc = "setup_phone"
    /\ LET phone == Strip(input)
       IN IF PhoneMatch(phone)
          THEN /\ credentials' = { <<"email", local.email>>,
                                   <<"phone", phone>> }
               /\ pc' = local.ret
               /\ obs' = IF local.ret = "done"
                         THEN [obs EXCEPT !.outcome = "credentials_saved"]
                         ELSE obs
          ELSE /\ credentials' = credentials
               /\ pc' = "setup_phone"
               /\ obs' = obs
    /\ UNCHANGED << connections, secrets, linkTokens, portTaken, cmd, local,
                    listener, progress, now >>
    /\ UNCHANGED network

(***************************************************************************)
(* _delete_plaid_item, called by delete() and by _add_plaid_item.          *)
(***************************************************************************)
\* where _delete_plaid_item returns to
DeleteReturn == IF cmd.op = "remove" THEN "done" ELSE "start_server"

\* what _delete_plaid_item reported: the outcome of remove, or of the
\* removal inside add
DeleteOutcome(o) == IF cmd.op = "remove" THEN [obs EXCEPT !.outcome = o]
                    ELSE [obs EXCEPT !.inner = o]

\* read the connections and find the first one with the name
DeleteFind ==
    /\ pc = "del_find"
    /\ LET k == FindByName(connections, cmd.name, 1)
       IN /\ local' = [local EXCEPT !.conns = connections, !.toRemove = k]
          /\ IF k = 0
             THEN /\ pc' = DeleteReturn
                  /\ obs' = DeleteOutcome("not_found")
             ELSE /\ pc' = "del_confirm"
                  /\ obs' = obs
    /\ UNCHANGED << persistent, portTaken, cmd, listener, progress, now >>
    /\ UNCHANGED network

\* formatter.confirm("Are you sure ...")
DeleteConfirm(ans) ==
    /\ pc = "del_confirm"
    /\ IF ~Confirm(ans)
       THEN /\ pc' = DeleteReturn
            /\ obs' = DeleteOutcome("cancelled")
       ELSE /\ pc' = "del_secret"
            /\ obs' = obs
    /\ UNCHANGED << persistent, portTaken, cmd, local, listener, progress,
                    now >>
    /\ UNCHANGED network

\* delete_access_token raises PasswordNotFoundError, which is caught
PasswordNotFoundIgnored(kr, id) == FALSE
PasswordNotFound(kr, id) == id \notin DOMAIN kr

\* AuthHandler.delete_access_token(connection_id) inside try / except
DeleteSecret ==
    /\ pc = "del_secret"
    /\ LET id == local.conns[local.toRemove].id
       IN IF PasswordNotFound(secrets, id)
          THEN /\ secrets' = secrets
               /\ pc' = DeleteReturn
               /\ obs' = DeleteOutcome("secret_not_found")
          ELSE /\ secrets' = KeyringDelete(secrets, id)
               /\ pc' = "del_write"
               /\ obs' = obs
    /\ UNCHANGED << connections, linkTokens, credentials, portTaken, cmd,
                    local, listener, progress, now >>
    /\ UNCHANGED network

\* connections.remove(connection_to_remove); json.dump(connections, f)
DeleteWrite ==
    /\ pc = "del_write"
    /\ connections' = ListRemove(local.conns, local.conns[local.toRemove])
    /\ pc' = DeleteReturn
    /\ obs' = DeleteOutcome("removed")
    /\ UNCHANGED << secrets, linkTokens, credentials, portTaken, cmd, local,
                    listener, progress, now >>
    /\ UNCHANGED network

(***************************************************************************)
(* PlaidCallbackServer: the serve_forever thread and the request handler.  *)
(***************************************************************************)
\* the thread started by start() enters TCPServer.serve_forever
ThreadEnter ==
    /\ thread = "started"
    /\ thread' = "serving"
    /\ UNCHANGED << persistent, portTaken, pc, cmd, local, server,
                    shutdownRequest, oauthComplete, progress, now, obs >>
    /\ UNCHANGED network

\* serve_forever sees the shutdown request and leaves its loop
ThreadExit ==
    /\ thread = "serving" /\ shutdownRequest
    /\ thread' = "exited"
    /\ shutdownRequest' = FALSE
    /\ UNCHANGED << persistent, portTaken, pc, cmd, local, server,
                    oauthComplete, progress, now, obs >>
    /\ UNCHANGED network

\* with self._lock: self._oauth_complete = True
SignalLatchNoop(flag) == flag
SignalLatch(flag) == TRUE

\* handler = server.routes.get(parsed_path.path): the one route is that of
\* the callback path
HasRoute(target) == UrlPath(RequestPath(target)) = CallbackPath

(***************************************************************************)
(* serve_forever handles one connection at a time on the listener thread:  *)
(* it accepts the connection, the handler reads the request line from it   *)
(* (no timeout is set on the connection), do_GET looks the route up and    *)
(* the response is written to the connection.  The loop looks at the       *)
(* shutdown request before each accept.                                    *)
(***************************************************************************)
\* a client connects and the handler starts to read from the connection;
\* max bounds the number of requests answered
Connect(max) ==
    /\ thread = "serving" /\ server = "bound" /\ ~shutdownRequest
    /\ obs.handled < max
    /\ thread' = "reading"
    /\ UNCHANGED << persistent, portTaken, pc, cmd, local, server,
                    shutdownRequest, oauthComplete, progress, now, obs >>
    /\ UNCHANGED network

\* the client sends its request: the handler has read the request line
ClientSends(target) ==
    /\ thread = "reading"
    /\ thread' = "handling"
    /\ request' = target
    /\ UNCHANGED << persistent, portTaken, otherLatch, timeWait, pc, cmd,
                    local, server, shutdownRequest, oauthComplete, progress,
                    now, obs >>

\* the client closes the connection without a request: the handler returns
ClientCloses ==
    /\ thread = "reading"
    /\ thread' = "serving"
    /\ UNCHANGED << persistent, portTaken, pc, cmd, local, server,
                    shutdownRequest, oauthComplete, progress, now, obs >>
    /\ UNCHANGED network

\* do_GET finds the route and _handle_oauth_callback sets the latch under
\* the lock; the lock is released before the response is written
HandleOauthCallback ==
    /\ thread = "handling" /\ HasRoute(request)
    /\ oauthComplete' = SignalLatch(oauthComplete)
    /\ obs' = [obs EXCEPT
                 !.matched = @ + 1,
                 !.signals = IF ~oauthComplete /\ SignalLatch(oauthComplete)
                             THEN @ + 1 ELSE @,
                 !.matchAt = IF @ = NoTime /\ obs.waitResult = None
                             THEN now - local.startTime ELSE @]
    /\ thread' = "responding"
    /\ UNCHANGED << persistent, portTaken, pc, cmd, local, server,
                    shutdownRequest, progress, now >>
    /\ UNCHANGED network

\* the response is written, 200 and the page by _handle_oauth_callback or
\* 404 by do_GET when the path has no route, and the handler closes the
\* connection
Respond ==
    /\ \/ thread = "responding"
       \/ thread = "handling" /\ ~HasRoute(request)
    /\ obs' = [obs EXCEPT !.handled = @ + 1,
                          !.lastStatus = IF thread = "responding"
                                         THEN 200 ELSE 404]
    /\ timeWait' = TRUE
    /\ thread' = "serving"
    /\ request' = NoRequest
    /\ UNCHANGED << persistent, portTaken, otherLatch, pc, cmd, local, server,
                    shutdownRequest, oauthComplete, progress, now >>

(***************************************************************************)
(* _add_plaid_item.                                                        *)
(***************************************************************************)
\* plaid_item = self._get_plaid_item(name)
DupCheck ==
    /\ pc = "dup_check"
    /\ pc' = IF GetPlaidItem(connections, cmd.name) # 0
             THEN "dup_prompt" ELSE "start_server"
    /\ UNCHANGED << persistent, portTaken, cmd, local, listener, progress,
                    now, obs >>
    /\ UNCHANGED network

\* the answer to "Remove the existing connection ...? (y/n)"
DupPrompt(ans) ==
    /\ pc = "dup_prompt"
    /\ IF ~DupAnswerIsYes(ans)
       THEN /\ pc' = "done"
            /\ obs' = [obs EXCEPT !.outcome = "cancelled"]
       ELSE /\ pc' = "del_find"
            /\ obs' = obs
    /\ UNCHANGED << persistent, portTaken, cmd, local, listener, progress,
                    now >>
    /\ UNCHANGED network

\* socketserver.TCPServer((host, port), handler_class) binds in its
\* constructor, before allow_reuse_address is set on the object: the bind
\* is made without SO_REUSEADDR and fails when the port is bound elsewhere
\* or a closed connection lingers on it
BindFailsNever(taken, lingering) == FALSE
BindFails(taken, lingering) == taken \/ lingering

\* start(): "if self.server: return"
AlreadyRunningNever(srv) == FALSE
AlreadyRunning(srv) == srv # "none"

\* server = PlaidCallbackServer(); server.start().  A bind error is raised
\* outside the try block and ends the command
StartServer ==
    /\ pc = "start_server"
    /\ IF AlreadyRunning(server)
       THEN /\ pc' = "try_begin"
            /\ UNCHANGED << server, thread, obs >>
       ELSE IF BindFails(portTaken, timeWait)
       THEN /\ pc' = "done"
            /\ obs' = [obs EXCEPT !.outcome = "bind_error"]
            /\ UNCHANGED << server, thread >>
       ELSE /\ server' = "bound"
            /\ thread' = "started"
            /\ pc' = "try_begin"
            /\ obs' = [obs EXCEPT !.listenerStarted = TRUE]
    /\ UNCHANGED << persistent, portTaken, cmd, local, shutdownRequest,
                    oauthComplete, progress, now >>
    /\ UNCHANGED network

\* start_progress; the credentials check inside the try block
TryBegin ==
    /\ pc = "try_begin"
    /\ progress' = TRUE
    /\ IF ~HasUserCredentials(credentials)
       THEN /\ pc' = "setup_email"
            /\ local' = [local EXCEPT !.ret = "read_creds"]
       ELSE /\ pc' = "read_creds"
            /\ local' = local
    /\ UNCHANGED << persistent, portTaken, cmd, listener, now, obs >>
    /\ UNCHANGED network

\* user_creds = json.load(f); email = user_creds.get("email")
ReadCreds ==
    /\ pc = "read_creds"
    /\ local' = [local EXCEPT !.email = CredsGet(credentials, "email")]
    /\ pc' = "link_create"
    /\ UNCHANGED << persistent, portTaken, cmd, listener, progress, now, obs >>
    /\ UNCHANGED network

\* AuthHandler.set_link_token(email, link_token)
SetLinkToken(lts, email, token) ==
    { e \in lts : e[1] # email } \cup { <<email, token>> }

\* where control goes when link_token_create or set_link_token raised:
\* "except Exception as e: print_error(...); return", out through finally
LinkFailureContinues == "open_browser"
LinkFailureReturns == "finally"

\* client.link_token_create(request) and set_link_token, or their failure
LinkCreate(ok, token) ==
    /\ pc = "link_create"
    /\ IF ok
       THEN /\ local' = [local EXCEPT !.linkToken = token]
            /\ linkTokens' = SetLinkToken(linkTokens, local.email, token)
            /\ pc' = "open_browser"
            /\ obs' = [obs EXCEPT !.apiCalled = TRUE]
       ELSE /\ local' = local
            /\ linkTokens' = linkTokens
            /\ pc' = LinkFailureReturns
            /\ obs' = [obs EXCEPT !.apiCalled = TRUE,
                                  !.outcome = "link_failed"]
    /\ UNCHANGED << connections, secrets, credentials, portTaken, cmd,
                    listener, progress, now >>
    /\ UNCHANGED network

\* where control goes after webbrowser.open(hosted_link_url), which returns
\* True when a browser was launched and False when none could be: the
\* result is not looked at
AfterBrowserChecked(ok) == IF ok THEN "wait_begin" ELSE "finally"
AfterBrowser(ok) == "wait_begin"

\* webbrowser.open(hosted_link_url)
OpenBrowser(ok) ==
    /\ pc = "open_browser"
    /\ pc' = AfterBrowser(ok)
    /\ obs' = [obs EXCEPT !.browser = IF ok THEN "opened" ELSE "failed"]
    /\ UNCHANGED << persistent, portTaken, cmd, local, listener, progress,
                    now >>
    /\ UNCHANGED network

(***************************************************************************)
(* PlaidCallbackServer.wait_for_callback(timeout_seconds=300).             *)
(***************************************************************************)
\* is_oauth_complete: the latch, read under the lock
IsOauthCompleteNever(flag) == FALSE
IsOauthComplete(flag) == flag

\* time.time() - start_time > timeout_seconds, for a time elapsed of so
\* many whole ticks.  late tells on which side of the tick the clock was
\* read: on a real clock time passes between the statements as well, so the
\* time elapsed is more than the ticks slept (late); on a clock that moves
\* in sleep() only it is the ticks slept
WaitTimedOutLate(elapsed, late, timeout) == elapsed > timeout + PollTicks
WaitTimedOut(elapsed, late, timeout) ==
    IF late THEN elapsed >= timeout ELSE elapsed > timeout

\* os.getenv("TTYF_TEST_MODE") == "1"
InTestModeAlways(flag) == TRUE
InTestMode(flag) == flag

\* start_time = time.time(); in test mode the wait is replaced by a sleep
WaitBegin ==
    /\ pc = "wait_begin"
    /\ IF InTestMode(cmd.testMode)
       THEN /\ local' = [local EXCEPT !.startTime = now,
                                      !.wakeAt = now + TestSleepTicks]
            /\ pc' = "test_sleep"
       ELSE /\ local' = [local EXCEPT !.startTime = now]
            /\ pc' = "wait_check"
    /\ UNCHANGED << persistent, portTaken, cmd, listener, progress, now, obs >>
    /\ UNCHANGED network

\* time passes inside time.sleep()
Tick ==
    /\ pc \in {"test_sleep", "wait_sleep"}
    /\ now < local.wakeAt
    /\ now' = now + 1
    /\ UNCHANGED << persistent, portTaken, pc, cmd, local, listener, progress,
                    obs >>
    /\ UNCHANGED network

\* test mode, after the sleep: the latch is set by the waiter, return True
TestModeSignal ==
    /\ pc = "test_sleep"
    /\ now = local.wakeAt
    /\ oauthComplete' = TRUE
    /\ obs' = [obs EXCEPT !.signals = IF oauthComplete THEN @ ELSE @ + 1,
                          !.waitResult = "true",
                          !.waitEnd = now - local.startTime]
    /\ pc' = "after_wait"
    /\ UNCHANGED << persistent, portTaken, cmd, local, server, thread,
                    shutdownRequest, progress, now >>
    /\ UNCHANGED network

\* the polling loop: "if self.is_oauth_complete: return True", the latch
\* being read under the lock
WaitCheck ==
    /\ pc = "wait_check"
    /\ IF IsOauthComplete(oauthComplete)
       THEN /\ obs' = [obs EXCEPT !.waitResult = "true",
                                  !.waitEnd = now - local.startTime]
            /\ pc' = "after_wait"
       ELSE /\ obs' = obs
            /\ pc' = "wait_clock"
    /\ UNCHANGED << persistent, portTaken, cmd, local, listener, progress,
                    now >>
    /\ UNCHANGED network

\* the polling loop, the lock released: the clock is read and the timeout
\* tested, then time.sleep(0.5) begins
WaitClock(late) ==
    /\ pc = "wait_clock"
    /\ IF WaitTimedOut(now - local.startTime, late, TimeoutTicks)
       THEN /\ obs' = [obs EXCEPT !.waitResult = "false",
                                  !.waitEnd = now - local.startTime]
            /\ pc' = "after_wait"
            /\ local' = local
       ELSE /\ obs' = obs
            /\ pc' = "wait_sleep"
            /\ local' = [local EXCEPT !.wakeAt = now + PollTicks]
    /\ UNCHANGED << persistent, portTaken, cmd, listener, progress, now >>
    /\ UNCHANGED network

\* time.sleep(0.5) returns
WaitWake ==
    /\ pc = "wait_sleep"
    /\ now = local.wakeAt
    /\ pc' = "wait_check"
    /\ UNCHANGED << persistent, portTaken, cmd, local, listener, progress,
                    now, obs >>
    /\ UNCHANGED network

(***************************************************************************)
(* _add_plaid_item, after the wait.                                        *)
(***************************************************************************)
\* if not callback_successful
CallbackFailedNever(result) == FALSE
CallbackFailed(result) == result = "false"

AfterWait ==
    /\ pc = "after_wait"
    /\ IF CallbackFailed(obs.waitResult)
       THEN /\ pc' = "finally"
            /\ obs' = [obs EXCEPT !.outcome = "timeout"]
       ELSE /\ pc' = "get_public_token"
            /\ obs' = obs
    /\ UNCHANGED << persistent, portTaken, cmd, local, listener, progress,
                    now >>
    /\ UNCHANGED network

\* the public token of the response: "empty" stands for a response whose
\* public_token is the empty string
PublicTokenOf(result) == IF result = "empty" THEN "" ELSE result

\* if not public_token
PublicTokenEmptyNever(token) == FALSE
PublicTokenEmpty(token) == token = ""

\* client.link_token_get(request) and the public token of its last result:
\* result is "raise", "empty" or a public token
GetPublicToken(result) ==
    /\ pc = "get_public_token"
    /\ IF result = "raise"
       THEN /\ pc' = "finally"
            /\ local' = local
            /\ obs' = [obs EXCEPT !.apiCalled = TRUE,
                                  !.tokenRequested = TRUE,
                                  !.outcome = "exception"]
       ELSE /\ local' = [local EXCEPT !.publicToken = PublicTokenOf(result)]
            /\ IF PublicTokenEmpty(PublicTokenOf(result))
               THEN /\ pc' = "finally"
                    /\ obs' = [obs EXCEPT !.apiCalled = TRUE,
                                          !.tokenRequested = TRUE,
                                          !.outcome = "no_public_token"]
               ELSE /\ pc' = "exchange"
                    /\ obs' = [obs EXCEPT !.apiCalled = TRUE,
                                          !.tokenRequested = TRUE]
    /\ UNCHANGED << persistent, portTaken, cmd, listener, progress, now >>
    /\ UNCHANGED network

\* the exchange of the public token; in test mode mock values are used, the
\* mock item id being derived from the wall clock (any id of ItemIds)
Exchange(ok, token, id) ==
    /\ pc = "exchange"
    /\ IF cmd.testMode
       THEN /\ local' = [local EXCEPT !.accessToken = MockAccessToken,
                                      !.itemId = id]
            /\ pc' = "save_check"
            /\ obs' = obs
       ELSE IF ok
       THEN /\ local' = [local EXCEPT !.accessToken = token, !.itemId = id]
            /\ pc' = "save_check"
            /\ obs' = [obs EXCEPT !.apiCalled = TRUE,
                                  !.exchange = "returned"]
       ELSE /\ local' = local
            /\ pc' = "finally"
            /\ obs' = [obs EXCEPT !.apiCalled = TRUE,
                                  !.exchange = "raised",
                                  !.outcome = "exchange_failed"]
    /\ UNCHANGED << persistent, portTaken, cmd, listener, progress, now >>
    /\ UNCHANGED network

(***************************************************************************)
(* _save_access_token(name, access_token, item_id), then the success line. *)
(***************************************************************************)
\* for conn in connections: if conn["name"] == name
NameExistsNever(conns, name) == FALSE
NameExists(conns, name) == \E i \in 1..Len(conns) : conns[i].name = name

\* connection = {"id": item_id, "name": name, ...}
NewConnectionIdFromName(item_id, name) == [id |-> name, name |-> name]
NewConnection(item_id, name) == [id |-> item_id, name |-> name]

\* connections = self._get_connections() and the name check; when the name
\* exists the function returns and the caller prints its success line
SaveCheck ==
    /\ pc = "save_check"
    /\ local' = [local EXCEPT !.conns = connections]
    /\ IF NameExists(connections, cmd.name)
       THEN /\ pc' = "finally"
            /\ obs' = [obs EXCEPT !.successPrinted = TRUE,
                                  !.outcome = "success"]
       ELSE /\ pc' = "save_secret"
            /\ obs' = obs
    /\ UNCHANGED << persistent, portTaken, cmd, listener, progress, now >>
    /\ UNCHANGED network

\* AuthHandler.save_access_token(item_id, access_token); when the keyring
\* raises, the except clause of _add_plaid_item prints the error
SaveSecret(ok) ==
    /\ pc = "save_secret"
    /\ IF ok
       THEN /\ secrets' = KeyringPut(secrets, local.itemId, local.accessToken)
            /\ obs' = [obs EXCEPT !.secretWritten = TRUE]
            /\ pc' = "save_append"
       ELSE /\ secrets' = secrets
            /\ obs' = [obs EXCEPT !.secretWritten = TRUE,
                                  !.outcome = "save_failed"]
            /\ pc' = "finally"
    /\ UNCHANGED << connections, linkTokens, credentials, portTaken, cmd,
                    local, listener, progress, now >>
    /\ UNCHANGED network

\* connections.append(connection); with open(file, "w"): json.dump(...)
SaveAppend ==
    /\ pc = "save_append"
    /\ connections' = Append(local.conns,
                             NewConnection(local.itemId, cmd.name))
    /\ obs' = [obs EXCEPT !.appended = TRUE]
    /\ pc' = "save_done"
    /\ UNCHANGED << secrets, linkTokens, credentials, portTaken, cmd, local,
                    listener, progress, now >>
    /\ UNCHANGED network

\* back in _add_plaid_item: print_success("Successfully added connection")
SaveDone ==
    /\ pc = "save_done"
    /\ obs' = [obs EXCEPT !.successPrinted = TRUE, !.outcome = "success"]
    /\ pc' = "finally"
    /\ UNCHANGED << persistent, portTaken, cmd, local, listener, progress,
                    now >>
    /\ UNCHANGED network

(***************************************************************************)
(* The finally block: formatter.stop_progress() and server.stop().         *)
(***************************************************************************)
\* stop(): "if not self.server: return"
ServerRunningNever(srv) == FALSE
ServerRunning(srv) == srv # "none"

\* stop_progress, then stop() up to server.shutdown(), which waits for the
\* serve_forever loop to end
Finally ==
    /\ pc = "finally"
    /\ progress' = FALSE
    /\ IF ServerRunning(server)
       THEN /\ shutdownRequest' = TRUE
            /\ pc' = "stop_wait"
       ELSE /\ shutdownRequest' = shutdownRequest
            /\ pc' = "done"
    /\ UNCHANGED << persistent, portTaken, cmd, local, server, thread,
                    oauthComplete, now, obs >>
    /\ UNCHANGED network

\* shutdown() has returned: server_close(), self.server = None,
\* thread.join()
StopFinish ==
    /\ pc = "stop_wait"
    /\ thread = "exited"
    /\ server' = "none"
    /\ thread' = "joined"
    /\ pc' = "done"
    /\ UNCHANGED << persistent, portTaken, cmd, local, shutdownRequest,
                    oauthComplete, progress, now, obs >>
    /\ UNCHANGED network

\* control is back in the caller: the process ends, and with it the
\* objects of the command
Exit ==
    /\ pc = "done"
    /\ pc' = "idle"
    /\ cmd' = NoCmd
    /\ local' = NoLocal
    /\ server' = "none"
    /\ thread' = "none"
    /\ shutdownRequest' = FALSE
    /\ oauthComplete' = FALSE
    /\ progress' = FALSE
    /\ now' = 0
    /\ obs' = NoObs
    /\ UNCHANGED << persistent, portTaken >>
    /\ UNCHANGED network

\* the process is killed inside _save_access_token or right after it: its
\* objects and its socket go with it, what it wrote to the files and the
\* keyring stays.  The connections file is written by open(file, "w"),
\* which empties it, and json.dump: killed in between (cut), the process
\* leaves an empty or cut file, which _get_connections reads as no
\* connections.  A connection the listener has accepted and not yet closed
\* is closed from the listener's side by the kill and lingers on the port
Crash(cut) ==
    /\ pc \in {"save_secret", "save_append", "save_done"}
    /\ cut => pc = "save_append"
    /\ connections' = IF cut THEN <<>> ELSE connections
    /\ pc' = "done"
    /\ obs' = [obs EXCEPT !.outcome = "killed"]
    /\ server' = "none"
    /\ thread' = "none"
    /\ request' = NoRequest
    /\ timeWait' = (timeWait \/ thread \in {"reading", "handling",
                                             "responding"})
    /\ shutdownRequest' = FALSE
    /\ progress' = FALSE
    /\ UNCHANGED << secrets, linkTokens, credentials, portTaken, otherLatch,
                    cmd, local, oauthComplete, now >>

(***************************************************************************)
(* PlaidCallbackServer on its own: a caller that holds one listener object *)
(* and calls start() and stop() on it in any order, while requests arrive  *)
(* and other processes use the port.  obs.outcome is how the last call     *)
(* ended and obs.inner how the call before it ended.                       *)
(***************************************************************************)
\* listener.start()
ListenerStart ==
    /\ pc = "idle"
    /\ cmd' = [NoCmd EXCEPT !.op = "start"]
    /\ pc' = "returned"
    /\ IF AlreadyRunning(server)
       THEN /\ obs' = [obs EXCEPT !.inner = obs.outcome,
                                  !.outcome = "already_running",
                                  !.startIgnored = TRUE]
            /\ UNCHANGED << server, thread >>
       ELSE IF BindFails(portTaken, timeWait)
       THEN /\ obs' = [obs EXCEPT !.inner = obs.outcome,
                                  !.outcome = "bind_error"]
            /\ UNCHANGED << server, thread >>
       ELSE /\ server' = "bound"
            /\ thread' = "started"
            /\ obs' = [obs EXCEPT !.inner = obs.outcome,
                                  !.outcome = "started",
                                  !.listenerStarted = TRUE,
                                  !.handled = 0,
                                  !.matched = 0,
                                  !.signals = 0]
    /\ UNCHANGED << persistent, portTaken, local, shutdownRequest,
                    oauthComplete, progress, now >>
    /\ UNCHANGED network

\* listener.stop(), up to its early return or to server.shutdown()
ListenerStop ==
    /\ pc = "idle"
    /\ cmd' = [NoCmd EXCEPT !.op = "stop"]
    /\ IF ServerRunning(server)
       THEN /\ shutdownRequest' = TRUE
            /\ pc' = "stopping"
            /\ obs' = obs
       ELSE /\ shutdownRequest' = shutdownRequest
            /\ pc' = "returned"
            /\ obs' = [obs EXCEPT !.inner = obs.outcome,
                                  !.outcome = "not_running",
                                  !.stopIgnored = TRUE]
    /\ UNCHANGED << persistent, portTaken, local, server, thread,
                    oauthComplete, progress, now >>
    /\ UNCHANGED network

\* shutdown() has returned: server_close(), self.server = None,
\* thread.join()
ListenerStopFinish ==
    /\ pc = "stopping"
    /\ thread = "exited"
    /\ server' = "none"
    /\ thread' = "joined"
    /\ pc' = "returned"
    /\ obs' = [obs EXCEPT !.inner = obs.outcome, !.outcome = "stopped"]
    /\ UNCHANGED << persistent, portTaken, cmd, local, shutdownRequest,
                    oauthComplete, progress, now >>
    /\ UNCHANGED network

\* the call has returned to the caller, which goes on to its next call
ListenerReturn ==
    /\ pc = "returned"
    /\ pc' = "idle"
    /\ UNCHANGED << persistent, portTaken, cmd, local, listener, progress,
                    now, obs >>
    /\ UNCHANGED network

(***************************************************************************)
(* The specification.                                                      *)
(***************************************************************************)
Next ==
    \/ OtherProcessBinds
    \/ OtherProcessReleases
    \/ OtherProcessSignaled
    \/ TimeWaitExpires
    \/ \E name \in Names, setup \in BOOLEAN, tm \in BOOLEAN :
           Add(name, setup, tm)
    \/ AddCheck
    \/ \E name \in Names, tm \in BOOLEAN : Remove(name, tm)
    \/ \E tm \in BOOLEAN : UserSetup(tm)
    \/ \E input \in EmailInputs : PromptEmail(input)
    \/ \E input \in PhoneInputs : PromptPhone(input)
    \/ DeleteFind
    \/ \E ans \in Answers : DeleteConfirm(ans)
    \/ DeleteSecret
    \/ DeleteWrite
    \/ ThreadEnter
    \/ ThreadExit
    \/ Connect(RequestsPerAttempt)
    \/ \E target \in AttemptTargets : ClientSends(target)
    \/ ClientCloses
    \/ HandleOauthCallback
    \/ Respond
    \/ DupCheck
    \/ \E ans \in Answers : DupPrompt(ans)
    \/ StartServer
    \/ TryBegin
    \/ ReadCreds
    \/ \E ok \in BOOLEAN, token \in LinkTokenValues : LinkCreate(ok, token)
    \/ \E ok \in {TRUE} : OpenBrowser(ok)
    \/ WaitBegin
    \/ Tick
    \/ TestModeSignal
    \/ WaitCheck
    \/ \E late \in BOOLEAN : WaitClock(late)
    \/ WaitWake
    \/ AfterWait
    \/ \E result \in {"raise", "empty"} \cup PublicTokens :
           GetPublicToken(result)
    \/ \E ok \in BOOLEAN, token \in AccessTokens, id \in ItemIds :
           Exchange(ok, token, id)
    \/ SaveCheck
    \/ \E ok \in BOOLEAN : SaveSecret(ok)
    \/ SaveAppend
    \/ SaveDone
    \/ \E cut \in BOOLEAN : Crash(cut)
    \/ Finally
    \/ StopFinish
    \/ Exit

Spec == Init /\ [][Next]_vars

\* The commands over a single connection name and item id, with the typed
\* emails that the pattern lets through although they are not addresses,
\* with a browser that may fail to open, and with the process being killed
\* inside the persistence step.
NextOneName ==
    \/ OtherProcessBinds
    \/ OtherProcessReleases
    \/ OtherProcessSignaled
    \/ TimeWaitExpires
    \/ \E name \in OneName, setup \in BOOLEAN, tm \in BOOLEAN :
           Add(name, setup, tm)
    \/ AddCheck
    \/ \E name \in OneName, tm \in BOOLEAN : Remove(name, tm)
    \/ \E tm \in BOOLEAN : UserSetup(tm)
    \/ \E input \in EmailInputs \cup LooseEmailInputs : PromptEmail(input)
    \/ \E input \in PhoneInputs : PromptPhone(input)
    \/ DeleteFind
    \/ \E ans \in Answers : DeleteConfirm(ans)
    \/ DeleteSecret
    \/ DeleteWrite
    \/ ThreadEnter
    \/ ThreadExit
    \/ Connect(MaxRequests)
    \/ \E target \in AttemptTargets : ClientSends(target)
    \/ ClientCloses
    \/ HandleOauthCallback
    \/ Respond
    \/ DupCheck
    \/ \E ans \in Answers : DupPrompt(ans)
    \/ StartServer
    \/ TryBegin
    \/ ReadCreds
    \/ \E ok \in BOOLEAN, token \in LinkTokenValues : LinkCreate(ok, token)
    \/ \E ok \in BOOLEAN : OpenBrowser(ok)
    \/ WaitBegin
    \/ Tick
    \/ TestModeSignal
    \/ WaitCheck
    \/ \E late \in BOOLEAN : WaitClock(late)
    \/ WaitWake
    \/ AfterWait
    \/ \E result \in {"raise", "empty"} \cup PublicTokens :
           GetPublicToken(result)
    \/ \E ok \in BOOLEAN, token \in AccessTokens, id \in OneItemId :
           Exchange(ok, token, id)
    \/ SaveCheck
    \/ \E ok \in BOOLEAN : SaveSecret(ok)
    \/ SaveAppend
    \/ SaveDone
    \/ \E cut \in BOOLEAN : Crash(cut)
    \/ Finally
    \/ StopFinish
    \/ Exit

SpecOneName == Init /\ [][NextOneName]_vars

\* the listener under a caller of start() and stop()
NextListener ==
    \/ OtherProcessBinds
    \/ OtherProcessReleases
    \/ OtherProcessSignaled
    \/ TimeWaitExpires
    \/ ListenerStart
    \/ ListenerStop
    \/ ListenerStopFinish
    \/ ListenerReturn
    \/ ThreadEnter
    \/ ThreadExit
    \/ Connect(MaxRequests)
    \/ \E target \in Targets : ClientSends(target)
    \/ ClientCloses
    \/ HandleOauthCallback
    \/ Respond

SpecListener == Init /\ [][NextListener]_vars

\* the same with the steps of the program taken whenever they stay
\* possible: the listener thread runs (it enters serve_forever, answers a
\* request it has read, leaves the loop on a shutdown request) and the
\* caller's thread runs (stop() goes on once shutdown() returned).  Nothing
\* is assumed of the clients and of the other processes.
SpecListenerFair ==
    /\ SpecListener
    /\ WF_vars(ThreadEnter) /\ WF_vars(ThreadExit)
    /\ WF_vars(HandleOauthCallback) /\ WF_vars(Respond)
    /\ WF_vars(ListenerStopFinish) /\ WF_vars(ListenerReturn)

(***************************************************************************)
(* Properties.                                                             *)
(***************************************************************************)
Range(seq) == { seq[i] : i \in 1..Len(seq) }

\* control is with the caller: no command is running or one has returned
AtRest == pc \in {"idle", "done"}

\* an add command has returned (a killed process returns nothing)
AddDone == pc = "done" /\ cmd.op = "add" /\ obs.outcome # "killed"

\* a remove command has returned
RemoveDone == pc = "done" /\ cmd.op = "remove"

\* the record the running command names, as it was when the command began
NamedAtStart == FindByName(obs.conns0, cmd.name, 1)

\* C1: after any sequence of add and remove commands, every connection
\* record has an id for which the keyring holds an access token.
C1_EveryRecordHasSecret ==
    AtRest => \A i \in 1..Len(connections) :
                  connections[i].id \in DOMAIN secrets

\* C2: no two connection records have the same name, at any point of any
\* sequence of add and remove commands, also when the replacement of an
\* existing name was confirmed and the removal inside add was declined or
\* failed.
C2_UniqueNames ==
    \A i \in 1..Len(connections) : \A j \in 1..Len(connections) :
        i # j => connections[i].name # connections[j].name

\* an add whose inner removal was declined went on to its end
C2_Witness ==
    /\ AddDone
    /\ obs.inner \in {"cancelled", "secret_not_found"}
    /\ obs.outcome = "success"
    /\ NameExists(connections, cmd.name)

\* C3: when an add command whose listener was started has returned, however
\* it ended, the listener is stopped: the socket is closed and the thread
\* is joined.
C3_ListenerStopped ==
    (AddDone /\ obs.listenerStarted) => (server = "none" /\ thread = "joined")

\* an attempt that ended by a raised exception, after the listener started
C3_Witness ==
    /\ AddDone /\ obs.listenerStarted
    /\ obs.outcome = "exception"
    /\ server = "none"

\* C4: in one attempt the latch changes from not signaled to signaled at
\* most once, and exactly once when a request with the callback path was
\* handled.
C4_LatchSignaledOnce ==
    /\ obs.signals <= 1
    /\ obs.matched > 0 => (obs.signals = 1 /\ oauthComplete)

\* two requests with the callback path were handled
C4_Witness == obs.matched >= 2 /\ obs.signals = 1 /\ ~cmd.testMode

\* no request with the callback path was handled before the timeout
NoMatchBeforeTimeout == obs.matchAt = NoTime \/ obs.matchAt >= TimeoutTicks

\* no request with the callback path was handled before the wait returned
NoMatchBeforeReturn == obs.matchAt = NoTime

\* C5, as stated: if no matching request arrives before the timeout,
\* wait_for_callback returns false, no later than the timeout plus one
\* polling interval after the wait began.
C5_Original ==
    (obs.waitResult # None /\ NoMatchBeforeTimeout)
        => (obs.waitResult = "false"
            /\ obs.waitEnd <= TimeoutTicks + PollTicks)

\* C5, amended: outside test mode, if no matching request is handled before
\* wait_for_callback returns, it returns false, no later than the timeout
\* plus one polling interval after the wait began.
C5_TimeoutBound ==
    (obs.waitResult # None /\ ~cmd.testMode /\ NoMatchBeforeReturn)
        => (obs.waitResult = "false"
            /\ obs.waitEnd <= TimeoutTicks + PollTicks)

\* the wait ran into its timeout
C5_Witness ==
    /\ obs.waitResult = "false" /\ ~cmd.testMode
    /\ NoMatchBeforeReturn
    /\ obs.waitEnd > TimeoutTicks

\* a matching request was handled at a time strictly before the timeout
MatchBeforeTimeout == obs.matchAt # NoTime /\ obs.matchAt < TimeoutTicks

\* C6, as stated: if a matching request is handled at time t strictly
\* before the timeout, wait_for_callback returns true, within t plus one
\* polling interval.
C6_Original ==
    (obs.waitResult # None /\ MatchBeforeTimeout)
        => (obs.waitResult = "true" /\ obs.waitEnd <= obs.matchAt + PollTicks)

\* C6, amended: outside test mode, if a matching request is handled at time
\* t strictly before the timeout, wait_for_callback returns true, within t
\* plus one polling interval.
C6_SignalLatency ==
    (obs.waitResult # None /\ ~cmd.testMode /\ MatchBeforeTimeout)
        => (obs.waitResult = "true" /\ obs.waitEnd <= obs.matchAt + PollTicks)

\* a matching request handled between two polls woke the waiter
C6_Witness ==
    /\ ~cmd.testMode /\ obs.matchAt = 1
    /\ obs.waitResult = "true" /\ obs.waitEnd = 2

\* the attempt wrote neither a connection record nor an access token
NothingWritten ==
    /\ ~obs.appended /\ ~obs.secretWritten
    /\ Range(connections) \subseteq Range(obs.conns0)
    /\ DOMAIN secrets \subseteq DOMAIN obs.secrets0
    /\ \A k \in DOMAIN secrets : secrets[k] = obs.secrets0[k]

\* how an attempt that timed out has ended
EndedInTimeout ==
    /\ obs.outcome = "timeout"
    /\ server = "none" /\ thread = "joined"
    /\ NothingWritten

\* C7, as stated: when the callback never arrives within the timeout, the
\* add attempt ends as failed with a timeout, the listener is stopped, and
\* the attempt has written neither a connection record nor a secret.
C7_Original ==
    (AddDone /\ obs.waitResult # None
        /\ (obs.matchAt = NoTime \/ obs.matchAt > TimeoutTicks))
        => EndedInTimeout

\* C7, amended: outside test mode, when no callback is handled before the
\* callback wait returns, the add attempt ends as failed with a timeout,
\* the listener is stopped, and the attempt has written neither a
\* connection record nor a secret.
C7_TimeoutFails ==
    (AddDone /\ obs.waitResult # None /\ ~cmd.testMode /\ NoMatchBeforeReturn)
        => EndedInTimeout

\* an attempt that timed out has returned
C7_Witness ==
    /\ AddDone /\ ~cmd.testMode /\ obs.listenerStarted
    /\ obs.waitResult = "false" /\ NoMatchBeforeReturn
    /\ obs.outcome = "timeout"

\* C8: when add is invoked with a name that exists and the user declines
\* the removal, nothing is changed: the connection list, the keyring and the
\* user profile are as before, the listener was not started and no call of
\* the external API was made.
C8_DeclineChangesNothing ==
    (AddDone /\ obs.outcome = "cancelled")
        => /\ connections = obs.conns0
           /\ secrets = obs.secrets0
           /\ credentials = obs.creds0
           /\ ~obs.listenerStarted
           /\ ~obs.apiCalled

\* the secret of the record the remove command names was absent when the
\* command began
SecretAbsentAtStart ==
    /\ NamedAtStart # 0
    /\ obs.conns0[NamedAtStart].id \notin DOMAIN obs.secrets0

\* C9: a remove command for a connection whose secret is absent from the
\* keyring reports that the secret was not found (unless the user declines
\* the removal) and leaves the connection list unchanged.
C9_SecretMissingKeepsRecord ==
    (RemoveDone /\ SecretAbsentAtStart)
        => /\ obs.outcome \in {"secret_not_found", "cancelled"}
           /\ connections = obs.conns0

\* a confirmed removal found no secret
C9_Witness ==
    /\ RemoveDone /\ SecretAbsentAtStart
    /\ obs.outcome = "secret_not_found"

\* an add that began with an empty connection list has succeeded
FirstAddDone == AddDone /\ obs.conns0 = <<>> /\ obs.outcome = "success"

\* C10 as stated: an add that began with an empty connection list and
\* succeeded leaves exactly one connection record, with the requested name,
\* and exactly one keyring entry, keyed by the item id that the token
\* exchange returned, which is the id of the record.
C10_Original ==
    FirstAddDone
        => /\ connections = << [id |-> local.itemId, name |-> cmd.name] >>
           /\ obs.exchange = "returned"
           /\ DOMAIN secrets = {local.itemId}
           /\ secrets[local.itemId] = local.accessToken

\* C10: an add that began with an empty connection list and succeeded
\* leaves exactly one connection record, with the requested name and the
\* item id of the attempt, and has written exactly one keyring entry, under
\* that id: the keyring holds the entries it held when the add began
\* (entries orphaned by a killed add), with their tokens unless under the
\* same id, and the new one; begun with an empty keyring it holds exactly
\* one entry.  Outside test mode the id is the one the token exchange
\* returned; in test mode it and the token are mock values and no exchange
\* is made.
C10_FirstAdd ==
    FirstAddDone
        => /\ connections = << [id |-> local.itemId, name |-> cmd.name] >>
           /\ local.itemId \in ItemIds
           /\ DOMAIN secrets = DOMAIN obs.secrets0 \cup {local.itemId}
           /\ secrets[local.itemId] = local.accessToken
           /\ \A id \in DOMAIN obs.secrets0 \ {local.itemId} :
                  secrets[id] = obs.secrets0[id]
           /\ obs.secrets0 = EmptyKeyring => DOMAIN secrets = {local.itemId}
           /\ IF cmd.testMode
              THEN obs.exchange = None /\ local.accessToken = MockAccessToken
              ELSE obs.exchange = "returned"

\* a first add has succeeded outside test mode, the keyring having been
\* empty when it began
C10_Witness ==
    /\ FirstAddDone /\ obs.secrets0 = EmptyKeyring
    /\ ~cmd.testMode /\ obs.appended
    /\ Len(connections) = 1

\* a first add has succeeded outside test mode and left its entry beside
\* one that a killed add had left under another id
FirstAddBesideOrphan ==
    /\ FirstAddDone /\ ~cmd.testMode
    /\ DOMAIN obs.secrets0 = ItemIds \ {local.itemId}
    /\ DOMAIN secrets = ItemIds

\* a call of start() or stop() on the listener has returned
Returned(op) == pc = "returned" /\ cmd.op = op

\* C11: stop() followed by start() on the same host and port does not fail
\* with a bind error: a start() that follows a completed stop() fails to
\* bind only when another process has taken the port in between.
C11_RestartBinds ==
    Returned("start") /\ obs.inner = "stopped" /\ obs.outcome = "bind_error"
        => portTaken

\* the add attempt's call of link_token_create (or set_link_token) raised
LinkFailed == obs.apiCalled /\ local.linkToken = None

\* the records of conns other than those with the given name
WithoutName(conns, name) == SelectSeq(conns, LAMBDA c : c.name # name)

\* the keyring kr without the entry of id
WithoutSecret(kr, id) == [k \in DOMAIN kr \ {id} |-> kr[k]]

\* the connection list and the keyring are what the duplicate-name step
\* left: as at the start, less the record of the name and its secret when
\* the user confirmed their removal
AsAfterDuplicateStep ==
    IF obs.inner = "removed"
    THEN /\ connections = WithoutName(obs.conns0, cmd.name)
         /\ secrets = WithoutSecret(obs.secrets0,
                                    obs.conns0[NamedAtStart].id)
    ELSE /\ connections = obs.conns0
         /\ secrets = obs.secrets0

\* C12 as stated: when link creation fails, the connection list and the
\* keyring are the same as before the attempt began.
C12_Original ==
    AddDone /\ LinkFailed
        => connections = obs.conns0 /\ secrets = obs.secrets0

\* C12: when link creation fails the attempt ends as failed, having
\* appended no record and written no secret: the connection list and the
\* keyring are as the duplicate-name step left them, which is as before the
\* attempt unless the user confirmed the removal of the existing connection
\* of that name.
C12_LinkFailurePersistsNothing ==
    AddDone /\ LinkFailed
        => /\ obs.outcome = "link_failed"
           /\ ~obs.successPrinted
           /\ NothingWritten
           /\ AsAfterDuplicateStep

\* link creation failed after the existing connection had been removed
C12_Witness ==
    /\ AddDone /\ LinkFailed
    /\ obs.inner = "removed"
    /\ Len(obs.conns0) = 2 /\ Len(connections) = 1

\* the retrieval of the public token raised or gave an empty token, or the
\* exchange raised
TokenStepFailed ==
    /\ obs.waitResult = "true"
    /\ \/ obs.outcome \in {"exception", "exchange_failed"}
       \/ local.publicToken = ""

\* C13: when the retrieval of the public token or its exchange fails
\* (remote error or empty public token), the attempt fails: no connection
\* record is appended and no access token is written to the keyring.
C13_TokenFailureWritesNothing ==
    AddDone /\ TokenStepFailed
        => /\ ~obs.successPrinted
           /\ NothingWritten
           /\ AsAfterDuplicateStep

\* the response held an empty public token and the attempt has ended,
\* leaving the stored connection as it was
C13_Witness ==
    /\ AddDone
    /\ local.publicToken = "" /\ obs.outcome = "no_public_token"
    /\ Len(connections) = 1 /\ connections = obs.conns0

\* a step of the command itself, as opposed to a step of another process,
\* of the listener thread or of the clock
CommandStep == pc' # pc

\* the listener start of an add attempt while another attempt holds the
\* port
SecondStart == pc = "start_server" /\ portTaken /\ CommandStep

\* C14 as stated: the attempt whose listener start collided with another
\* attempt ends without having persisted anything.
C14_Original ==
    AddDone /\ obs.outcome = "bind_error" /\ portTaken
        => /\ connections = obs.conns0
           /\ secrets = obs.secrets0
           /\ credentials = obs.creds0

\* C14: when an add attempt starts its listener while another attempt holds
\* the port, the start fails at once with a bind error, without any wait:
\* the attempt ends in that step with no record appended and no access
\* token written, what the profile step and a confirmed removal of the
\* existing connection did before the start staying done; and no step of
\* the attempt changes the other attempt's hold of the port or its latch.
C14_BindFailsFast ==
    [][ /\ SecondStart
            => /\ pc' = "done"
               /\ obs'.outcome = "bind_error"
               /\ now' = now
               /\ server' = "none" /\ thread' = "none"
               /\ UNCHANGED persistent
               /\ NothingWritten'
               /\ AsAfterDuplicateStep'
        /\ CommandStep
            => portTaken' = portTaken /\ otherLatch' = otherLatch ]_vars

\* an add attempt has ended in a bind error while the other attempt, whose
\* latch is set, holds the port
C14_Witness ==
    /\ AddDone /\ obs.outcome = "bind_error"
    /\ portTaken /\ otherLatch /\ ~timeWait
    /\ server = "none" /\ ~obs.listenerStarted

\* a call of start() on a listener that is running
StartOnRunning == pc = "idle" /\ cmd'.op = "start" /\ server # "none"

\* a call of stop() on a listener that is not running
StopOnStopped == pc = "idle" /\ cmd'.op = "stop" /\ server = "none"

\* C15: start() on a listener that is already running, and stop() on a
\* listener that is not running (never started, already stopped, or whose
\* start failed to bind), return at once and leave the listener as it was:
\* no second socket or thread is created and no error is raised.
C15_Idempotent ==
    [][ (CommandStep /\ (StartOnRunning \/ StopOnStopped))
            => /\ pc' = "returned"
               /\ UNCHANGED listener
               /\ obs'.outcome \in {"already_running", "not_running"} ]_vars

\* stop() has returned from a listener whose start had failed to bind, and
\* earlier a start() on the running listener and a stop() on the stopped
\* listener had returned as well
C15_Witness ==
    /\ Returned("stop")
    /\ obs.outcome = "not_running" /\ obs.inner = "bind_error"
    /\ obs.startIgnored /\ obs.stopIgnored
    /\ server = "none" /\ thread = "joined"

\* C16: a remove command that the user confirms and whose access token is
\* in the keyring deletes the named record and its access token and leaves
\* every other record and every other access token as they were; a remove
\* of an unknown name, or one the user declines, changes neither the
\* connection list nor the keyring.
C16_RemoveDeletesPair ==
    RemoveDone =>
        IF NamedAtStart = 0
        THEN /\ obs.outcome = "not_found"
             /\ connections = obs.conns0 /\ secrets = obs.secrets0
        ELSE IF obs.outcome = "cancelled"
        THEN connections = obs.conns0 /\ secrets = obs.secrets0
        ELSE IF obs.conns0[NamedAtStart].id \in DOMAIN obs.secrets0
        THEN /\ obs.outcome = "removed"
             /\ connections = WithoutName(obs.conns0, cmd.name)
             /\ secrets = WithoutSecret(obs.secrets0,
                                        obs.conns0[NamedAtStart].id)
        ELSE obs.outcome = "secret_not_found"

\* the first of two records has been removed with its access token, the
\* second record and its access token are still there
C16_Witness ==
    /\ RemoveDone /\ obs.outcome = "removed"
    /\ Len(obs.conns0) = 2 /\ NamedAtStart = 1
    /\ DOMAIN obs.secrets0 = ItemIds
    /\ connections = << obs.conns0[2] >>
    /\ DOMAIN secrets = {obs.conns0[2].id}

\* the whole of s has the shape of the pattern: one @, text before it, and
\* after it text, a dot and text
WellFormedEmail(s) ==
    \E a \in 1..Len(s) : \E d \in 1..Len(s) :
        /\ \A i \in 1..a : s[i] # "@"
        /\ a + 1 <= Len(s) /\ s[a + 1] = "@"
        /\ d >= a + 3
        /\ \A i \in (a + 2)..(d - 1) : s[i] # "@"
        /\ s[d] = "."
        /\ d + 1 <= Len(s)
        /\ \A i \in (d + 1)..Len(s) : s[i] # "@"

\* C17: the add flow goes past the profile step only with a valid profile:
\* a stored profile has a well-formed email and a 10-digit phone, malformed
\* input being asked for again and not stored, and the email the link is
\* created with is well formed.
C17_ValidProfile ==
    /\ credentials # NoProfile
           => /\ WellFormedEmail(CredsGet(credentials, "email"))
              /\ PhoneMatch(CredsGet(credentials, "phone"))
    /\ pc = "link_create" => WellFormedEmail(local.email)

\* the add attempt is inside wait_for_callback, or the wait has returned
WaitEntered ==
    \/ pc \in {"wait_begin", "test_sleep", "wait_check", "wait_clock",
              "wait_sleep"}
    \/ obs.waitResult # None

\* C18: a browser that could not be opened does not end the add attempt:
\* the attempt goes on into the callback wait, and when a request with the
\* callback path is handled before the timeout, the wait returns true and
\* the attempt does not end as timed out.
C18_BrowserFailureGoesOn ==
    obs.browser = "failed"
        => /\ WaitEntered
           /\ MatchBeforeTimeout /\ obs.waitResult # None /\ ~cmd.testMode
                  => obs.waitResult = "true"
           /\ obs.waitResult = "true" => obs.outcome # "timeout"

\* outside test mode the browser did not open, the callback was handled
\* all the same, and the attempt ended with the connection added
C18_Witness ==
    /\ AddDone /\ ~cmd.testMode
    /\ obs.browser = "failed"
    /\ obs.matched >= 1 /\ obs.waitResult = "true"
    /\ obs.outcome = "success" /\ obs.appended

\* no connection record lacks its access token
AllRecordsHaveSecret ==
    \A i \in 1..Len(connections) : connections[i].id \in DOMAIN secrets

\* C19: in the persistence step the access token is written to the keyring
\* before the record is appended to the connection list: a step of
\* _save_access_token, the process being killed between the two writes
\* included, never leaves a record without its access token, and the list
\* changes only when the token of the new record is already stored.
C19_SecretBeforeRecord ==
    [][ (pc \in {"save_secret", "save_append", "save_done"} /\ CommandStep
            /\ AllRecordsHaveSecret)
            => /\ AllRecordsHaveSecret'
               /\ connections' # connections
                      => /\ obs.secretWritten
                         /\ local.itemId \in DOMAIN secrets
                         /\ secrets[local.itemId] = local.accessToken
               /\ secrets' # secrets => connections' = connections ]_vars

\* the process was killed between the two writes: the access token is in
\* the keyring and no record names it
C19_Witness ==
    /\ pc = "done" /\ cmd.op = "add" /\ obs.outcome = "killed"
    /\ obs.secretWritten /\ ~obs.appended
    /\ local.itemId \in DOMAIN secrets
    /\ connections = <<>>

\* The states of the add flow, each as "has been entered by the running
\* attempt".
ProfileReady ==
    /\ cmd.op = "add"
    /\ pc \notin {"idle", "setup_email", "setup_phone", "add_check"}
    /\ credentials # NoProfile
LinkCreated == cmd.op = "add" /\ local.linkToken # None
ListenerActive == cmd.op = "add" /\ obs.listenerStarted
AwaitingCallback == cmd.op = "add" /\ WaitEntered
CallbackReceived == cmd.op = "add" /\ obs.waitResult = "true"
TokenExchanged == cmd.op = "add" /\ local.itemId # None
Persisted == cmd.op = "add" /\ obs.appended

\* C20: the states are entered in the order ProfileReady, LinkCreated,
\* ListenerActive, AwaitingCallback, CallbackReceived, TokenExchanged,
\* Persisted: the listener is started only after the profile is ready and
\* the link has been created.  _add_plaid_item starts the listener before
\* it asks for the link, so an attempt is in ListenerActive without having
\* been in LinkCreated.
C20_Original ==
    /\ Persisted => TokenExchanged
    /\ TokenExchanged => CallbackReceived
    /\ CallbackReceived => AwaitingCallback
    /\ AwaitingCallback => ListenerActive
    /\ ListenerActive => LinkCreated
    /\ LinkCreated => ProfileReady

\* the attempt wrote an access token or a connection record
SomethingWritten == obs.secretWritten \/ obs.appended

\* the values _save_access_token is called with are there
HasTokenAndId == local.accessToken # None /\ local.itemId # None

\* C21 as stated: the public token is requested only after the wait
\* returned true, the exchange is made only after a non-empty public token
\* was obtained, and the access token and the record are written only
\* after the exchange returned an access token and an item id.
C21_Original ==
    cmd.op = "add"
        => /\ obs.tokenRequested => obs.waitResult = "true"
           /\ obs.exchange # None => local.publicToken \in PublicTokens
           /\ SomethingWritten
                  => obs.exchange = "returned" /\ HasTokenAndId

\* C21: the public token is requested only after the wait returned true
\* and the exchange is made only after a non-empty public token was
\* obtained; outside test mode the access token and the record are written
\* only after the exchange returned an access token and an item id, and in
\* test mode, where no exchange is made, only after a non-empty public
\* token was obtained and the mock access token and item id were set.
C21_FieldsInOrder ==
    cmd.op = "add"
        => /\ obs.tokenRequested => obs.waitResult = "true"
           /\ obs.exchange # None
                  => local.publicToken \in PublicTokens /\ ~cmd.testMode
           /\ SomethingWritten
                  => /\ HasTokenAndId
                     /\ obs.tokenRequested
                     /\ local.publicToken \in PublicTokens
                     /\ IF cmd.testMode
                        THEN /\ obs.exchange = None
                             /\ local.accessToken = MockAccessToken
                        ELSE obs.exchange = "returned"

\* outside test mode the attempt has gone through the wait, the public
\* token, the exchange and both writes
C21_Witness ==
    /\ AddDone /\ ~cmd.testMode
    /\ obs.waitResult = "true" /\ obs.tokenRequested
    /\ local.publicToken \in PublicTokens
    /\ obs.exchange = "returned" /\ HasTokenAndId
    /\ obs.secretWritten /\ obs.appended

\* the path of a request target: leading slashes count as one, the path
\* ends where the query or the fragment begins, and the parameters that
\* follow a ; in its last segment are not part of it
TargetPath(t) ==
    LET u == IF t # <<>> /\ Head(t) = "/" THEN <<"/">> \o LStripSlash(t)
             ELSE t
        p == SubSeq(u, 1, FirstIn(u, {"?", "#"}, 1) - 1)
        last == LastIndexOf(p, "/", Len(p))
    IN SubSeq(p, 1, FirstIn(p, {";"}, IF last = 0 THEN 1 ELSE last) - 1)

\* the handler answers the request it has read
Responds == thread \in {"handling", "responding"} /\ thread' = "serving"

\* C22: a request whose path is not the callback path is answered with 404
\* and leaves the latch as it was; a request whose path is the callback
\* path is answered with 200 and leaves the latch set, whatever follows the
\* path in the target; either way the listener thread goes back to serving
\* on the same socket.
C22_RoutesByPath ==
    [][ /\ Responds
            => /\ thread' = "serving"
               /\ server = "bound" /\ server' = "bound"
               /\ obs'.handled = obs.handled + 1
               /\ oauthComplete' = oauthComplete
               /\ IF TargetPath(request) = CallbackPath
                  THEN obs'.lastStatus = 200 /\ oauthComplete
                  ELSE obs'.lastStatus = 404
        /\ (thread = "handling" /\ TargetPath(request) # CallbackPath)
            => (oauthComplete' = oauthComplete /\ thread' # "responding")
      ]_vars

\* a request with another path was answered and left the latch unset, then
\* a request with the callback path was answered with 200 and set it, and
\* the thread is serving again
C22_Witness ==
    /\ obs.handled = 2 /\ obs.matched = 1 /\ obs.signals = 1
    /\ obs.lastStatus = 200 /\ oauthComplete
    /\ thread = "serving" /\ server = "bound"

\* C23 as stated: the latch is written by the request handler only, so it
\* is set only if a request with the callback path was handled.
C23_Original ==
    cmd.op = "add" /\ oauthComplete => obs.matched >= 1

\* C23: outside test mode the latch is written by the request handler only
\* and wait_for_callback only reads it, so the latch is set only if a
\* request with the callback path was handled; in test mode
\* wait_for_callback sets the latch itself when its sleep is over.
C23_LatchWriters ==
    [][ /\ (cmd'.op = "add" /\ oauthComplete')
            => \/ obs'.matched >= 1
               \/ cmd'.testMode /\ obs'.waitResult = "true"
        /\ (CommandStep /\ oauthComplete' # oauthComplete)
            => \/ pc = "test_sleep" /\ cmd.testMode /\ now = local.wakeAt
               \/ pc = "done" ]_vars

\* outside test mode the wait has returned true on a latch that the
\* handler of a request with the callback path had set
C23_Witness ==
    /\ AddDone /\ ~cmd.testMode
    /\ oauthComplete /\ obs.signals = 1 /\ obs.matched >= 1
    /\ obs.waitResult = "true"

\* C24: no two connection records have the same id, after any sequence of
\* add and remove commands, so that removing one connection never deletes
\* the access token another remaining record refers to.
C24_UniqueIds ==
    \A i \in 1..Len(connections) : \A j \in 1..Len(connections) :
        connections[i].id = connections[j].id => i = j

\* C25: an add prints its success line for a name only if, in that same
\* attempt, the access token was written to the keyring and a record with
\* the name was appended to the connection list.
C25_SuccessMeansSaved ==
    cmd.op = "add" /\ obs.successPrinted
        => /\ obs.secretWritten /\ obs.appended
           /\ NameExists(connections, cmd.name)
           /\ Len(connections) = Len(local.conns) + 1

\* C26: when an add has passed the duplicate-name check and is about to
\* start the listener, the connection list holds no record with the
\* requested name: a confirmed replacement has removed the old record.
C26_NameFreeAtStart ==
    cmd.op = "add" /\ pc = "start_server"
        => ~NameExists(connections, cmd.name)

\* C27: a stop() made at any point after start() returned, also before the
\* thread has entered its loop and while a request is being handled,
\* eventually returns, with the thread terminated and the listener marked
\* not running.
C27_StopReturns ==
    (pc = "stopping")
        ~> (pc = "returned" /\ thread = "joined" /\ server = "none")
====
